---- MODULE Spec2Model ----
(***************************************************************************)
(* A model of the srcsrv crate: the macro parser and evaluator of          *)
(* src/src/ast.rs, the stream parser SrcSrvStream::parse and the per-file  *)
(* lookup SrcSrvStream::source_and_raw_var_values_for_path of              *)
(* src/src/lib.rs.                                                         *)
(*                                                                         *)
(* Text is modelled as a sequence of one-character strings, so that every  *)
(* conversion of the code (lowercasing, splitting, prefix tests, the       *)
(* parser's scans) is computed on the characters.                          *)
(***************************************************************************)
EXTENDS Integers, Sequences, FiniteSets, TLC

VARIABLES
    \* AstNode::parse applied to one macro string (specification SpecAst)
    macro_input, macro_result,
    \* SrcSrvStream::parse on one stream (specification SpecParse): its
    \* lines, the lines not yet read, the section being read, the line that ended the
    \* last section, and what parse returned
    stream, lines, section, next_section_start_line, parse_result,
    \* the fields of SrcSrvStream
    version, ini_fields, var_fields, source_file_entries,
    \* the locals of each call of source_and_raw_var_values_for_path
    pc, args, var_map, eval_stack, frames, ctl, fields,
    error_persistence, result,
    \* history of each call: how often each variable's AST was evaluated,
    \* how often eval_impl was asked for each name, and the steps taken
    ast_evals, requested, steps

astVars == <<macro_input, macro_result>>
parseVars == <<stream, lines, section, next_section_start_line, parse_result>>
streamVars == <<version, ini_fields, var_fields, source_file_entries>>
lookupVars == <<pc, args, var_map, eval_stack, frames, ctl, fields,
                error_persistence, result, ast_evals, requested, steps>>
vars == <<astVars, parseVars, streamVars, lookupVars>>

----------------------------------------------------------------------------
(* Text helpers: the std and memchr functions the code calls.              *)

\* The byte 0x08, the separator of SRCSRVENV entries.
BS == "<08>"

Range(s) == {s[k] : k \in 1..Len(s)}

\* u8::to_ascii_lowercase
LowerChar(c) ==
    CASE c = "A" -> "a" [] c = "B" -> "b" [] c = "C" -> "c" [] c = "D" -> "d"
      [] c = "E" -> "e" [] c = "F" -> "f" [] c = "G" -> "g" [] c = "H" -> "h"
      [] c = "I" -> "i" [] c = "J" -> "j" [] c = "K" -> "k" [] c = "L" -> "l"
      [] c = "M" -> "m" [] c = "N" -> "n" [] c = "O" -> "o" [] c = "P" -> "p"
      [] c = "Q" -> "q" [] c = "R" -> "r" [] c = "S" -> "s" [] c = "T" -> "t"
      [] c = "U" -> "u" [] c = "V" -> "v" [] c = "W" -> "w" [] c = "X" -> "x"
      [] c = "Y" -> "y" [] c = "Z" -> "z" [] OTHER -> c

\* str::to_ascii_lowercase
ToAsciiLowercase(s) == [k \in 1..Len(s) |-> LowerChar(s[k])]

\* str::starts_with
StartsWith(s, prefix) ==
    /\ Len(s) >= Len(prefix)
    /\ SubSeq(s, 1, Len(prefix)) = prefix

\* memchr: the 1-based position of the first c in s, 0 for None.
Memchr(c, s) ==
    IF \E k \in 1..Len(s) : s[k] = c
    THEN CHOOSE k \in 1..Len(s) : s[k] = c /\ \A j \in 1..(k - 1) : s[j] # c
    ELSE 0

\* memchr2: the 1-based position of the first c1 or c2 in s, 0 for None.
Memchr2(c1, c2, s) ==
    IF \E k \in 1..Len(s) : s[k] \in {c1, c2}
    THEN CHOOSE k \in 1..Len(s) :
            s[k] \in {c1, c2} /\ \A j \in 1..(k - 1) : s[j] \notin {c1, c2}
    ELSE 0

\* The 1-based position of the last c in s, 0 for None.
Memrchr(c, s) ==
    IF \E k \in 1..Len(s) : s[k] = c
    THEN CHOOSE k \in 1..Len(s) :
            s[k] = c /\ \A j \in (k + 1)..Len(s) : s[j] # c
    ELSE 0

\* str::split_once: None, or the text before and after the first c.
SplitOnce(s, c) ==
    LET pos == Memchr(c, s)
    IN  IF pos = 0
        THEN [some |-> FALSE]
        ELSE [some |-> TRUE,
              head |-> SubSeq(s, 1, pos - 1),
              tail |-> SubSeq(s, pos + 1, Len(s))]

\* str::rsplit_once: None, or the text before and after the last c.
RSplitOnce(s, c) ==
    LET pos == Memrchr(c, s)
    IN  IF pos = 0
        THEN [some |-> FALSE]
        ELSE [some |-> TRUE,
              head |-> SubSeq(s, 1, pos - 1),
              tail |-> SubSeq(s, pos + 1, Len(s))]

\* str::split: the pieces of s between the occurrences of c (never empty:
\* a text without c is its own single piece).
RECURSIVE Split(_, _)
Split(s, c) ==
    LET pos == Memchr(c, s)
    IN  IF pos = 0
        THEN <<s>>
        ELSE <<SubSeq(s, 1, pos - 1)>> \o Split(SubSeq(s, pos + 1, Len(s)), c)

\* str::splitn: as split, but at most n pieces, the last one unsplit.
RECURSIVE SplitN(_, _, _)
SplitN(n, s, c) ==
    LET pos == Memchr(c, s)
    IN  IF n = 0 THEN <<>>
        ELSE IF n = 1 \/ pos = 0 THEN <<s>>
        ELSE <<SubSeq(s, 1, pos - 1)>>
                \o SplitN(n - 1, SubSeq(s, pos + 1, Len(s)), c)

\* str::replace of one character by another.
Replace(s, from, to) == [k \in 1..Len(s) |-> IF s[k] = from THEN to ELSE s[k]]

\* [String]::join("")
RECURSIVE Join(_)
Join(values) ==
    IF values = <<>> THEN <<>> ELSE Head(values) \o Join(Tail(values))

----------------------------------------------------------------------------
(* AstNode and its parser (src/src/ast.rs).                                *)

Sequence(nodes) == [type |-> "Sequence", nodes |-> nodes]
LiteralString(s) == [type |-> "LiteralString", s |-> s]
Variable(name) == [type |-> "Variable", name |-> name]
FnVar(node) == [type |-> "FnVar", node |-> node]
FnBackslash(node) == [type |-> "FnBackslash", node |-> node]
FnFile(node) == [type |-> "FnFile", node |-> node]

\* The outcomes of a parser function: Ok((node, rest)), Err(ParseError), or
\* the panic of an out-of-bounds index.
ParseOk(node, rest) == [kind |-> "ok", node |-> node, rest |-> rest]
ParseErr(err) == [kind |-> "err", err |-> err]
ParsePanic == [kind |-> "panic"]

MissingPercent == [type |-> "MissingPercent"]
MissingOpeningParen(function) ==
    [type |-> "MissingOpeningParen", function |-> function]
MissingClosingParen(function) ==
    [type |-> "MissingClosingParen", function |-> function]

FNVAR == <<"f", "n", "v", "a", "r">>
FNBKSL == <<"f", "n", "b", "k", "s", "l">>
FNFILE == <<"f", "n", "f", "i", "l", "e">>

\* The loop condition of parse_all: the rest is empty, or a nested parse
\* stands at a closing parenthesis.
ParseAllStops(rest, stop_at_closing_paren) ==
    \/ rest = <<>>
    \/ (stop_at_closing_paren /\ rest[1] = ")")

RECURSIVE ParseAll(_, _), ParseAllLoop(_, _, _), ParseOne(_, _),
          TryParseArgs(_, _)

\* AstNode::try_parse_args. A slice of an empty s, s[1..], is not reached:
\* the first test returns.
TryParseArgs(s, function) ==
    IF s = <<>> \/ s[1] # "("
    THEN ParseErr(MissingOpeningParen(function))
    ELSE LET r == ParseAll(Tail(s), TRUE)
         IN  IF r.kind # "ok" THEN r
             ELSE IF r.rest = <<>> \/ r.rest[1] # ")"
             THEN ParseErr(MissingClosingParen(function))
             ELSE ParseOk(r.node, Tail(r.rest))

\* AstNode::parse_one. The code indexes s[0] without a test ("s must not be
\* empty"): on an empty s the index is out of bounds and the thread panics.
ParseOne(s, stop_at_closing_paren) ==
    IF s = <<>> THEN ParsePanic
    ELSE IF s[1] # "%"
    THEN LET found == IF stop_at_closing_paren
                      THEN Memchr2("%", ")", s)
                      ELSE Memchr("%", s)
             literal_end == IF found = 0 THEN Len(s) ELSE found - 1
         IN  ParseOk(LiteralString(SubSeq(s, 1, literal_end)),
                     SubSeq(s, literal_end + 1, Len(s)))
    ELSE LET t == Tail(s)
             second_percent_pos == Memchr("%", t)
             rest == SubSeq(t, second_percent_pos + 1, Len(t))
             var_name == SubSeq(t, 1, second_percent_pos - 1)
             lower == ToAsciiLowercase(var_name)
         IN  IF second_percent_pos = 0 THEN ParseErr(MissingPercent)
             ELSE IF lower = FNVAR
             THEN LET r == TryParseArgs(rest, "fnvar")
                  IN  IF r.kind # "ok" THEN r
                      ELSE ParseOk(FnVar(r.node), r.rest)
             ELSE IF lower = FNBKSL
             THEN LET r == TryParseArgs(rest, "fnbksl")
                  IN  IF r.kind # "ok" THEN r
                      ELSE ParseOk(FnBackslash(r.node), r.rest)
             ELSE IF lower = FNFILE
             THEN LET r == TryParseArgs(rest, "fnfile")
                  IN  IF r.kind # "ok" THEN r
                      ELSE ParseOk(FnFile(r.node), r.rest)
             ELSE ParseOk(Variable(var_name), rest)

\* The loop of AstNode::parse_all, entered with the nodes parsed so far.
ParseAllLoop(nodes, rest, stop_at_closing_paren) ==
    LET r == ParseOne(rest, stop_at_closing_paren)
    IN  IF r.kind # "ok" THEN r
        ELSE IF ParseAllStops(r.rest, stop_at_closing_paren)
        THEN ParseOk(Sequence(Append(nodes, r.node)), r.rest)
        ELSE ParseAllLoop(Append(nodes, r.node), r.rest, stop_at_closing_paren)

\* AstNode::parse_all
ParseAll(s, stop_at_closing_paren) ==
    LET r == ParseOne(s, stop_at_closing_paren)
    IN  IF r.kind # "ok" THEN r
        ELSE IF ParseAllStops(r.rest, stop_at_closing_paren) THEN r
        ELSE ParseAllLoop(<<r.node>>, r.rest, stop_at_closing_paren)

\* AstNode::parse (SrcSrvStream::parse reaches it as AstNode::try_from_str).
AstParse(s) ==
    IF s = <<>> THEN [kind |-> "ok", node |-> LiteralString(<<>>)]
    ELSE LET r == ParseAll(s, FALSE)
         IN  IF r.kind = "ok" THEN [kind |-> "ok", node |-> r.node] ELSE r

----------------------------------------------------------------------------
(* AstNode::eval's pure parts and the helpers of the lookup                *)
(* (src/src/ast.rs, src/src/lib.rs).                                       *)

\* Option<T>: None is the empty sequence, Some(v) the one-element sequence.
None == <<>>
Some(v) == <<v>>

\* HashMap::insert: the new value replaces an older one of the same key.
Insert(map, key, value) == (key :> value) @@ map

\* How often a name was counted in a history.
Count(bag, name) == IF name \in DOMAIN bag THEN bag[name] ELSE 0

\* HashMap::get
Get(map, key) == IF key \in DOMAIN map THEN Some(map[key]) ELSE None

SRCSRVTRG == <<"S", "R", "C", "S", "R", "V", "T", "R", "G">>
SRCSRVCMD == <<"S", "R", "C", "S", "R", "V", "C", "M", "D">>
SRCSRVENV == <<"S", "R", "C", "S", "R", "V", "E", "N", "V">>
SRCSRVVERCTRL ==
    <<"S", "R", "C", "S", "R", "V", "V", "E", "R", "C", "T", "R", "L">>
SRCSRVERRVAR ==
    <<"S", "R", "C", "S", "R", "V", "E", "R", "R", "V", "A", "R">>
TARG == <<"t", "a", "r", "g">>
HTTP == <<"h", "t", "t", "p", ":", "/", "/">>
HTTPS == <<"h", "t", "t", "p", "s", ":", "/", "/">>

\* The decimal digits of a number, as format!("{}", n) writes them.
RECURSIVE Decimal(_)
Decimal(n) ==
    LET digit == <<"0", "1", "2", "3", "4", "5", "6", "7", "8", "9">>
    IN  IF n < 10 THEN <<digit[n + 1]>>
        ELSE Decimal(n \div 10) \o <<digit[(n % 10) + 1]>>

\* format!("var{}", i + 1) of add_vars_for_file; k is i + 1.
VarName(k) == <<"v", "a", "r">> \o Decimal(k)

\* AstNode::eval, FnBackslash: every slash becomes a backslash.
FnBackslashValue(val) == Replace(val, "/", "\\")

\* AstNode::eval, FnFile: the text after the last backslash, or all of it.
FnFileValue(val) ==
    LET parts == RSplitOnce(val, "\\")
    IN  IF parts.some THEN parts.tail ELSE val

\* The get_var closure of eval_impl: the requested name, lowercased.
GetVarName(var_name) == ToAsciiLowercase(var_name)

\* A lookup without the memoization test.
MemoizedNever(map, var_name) == FALSE

\* A memoization test that lets the variables section go first.
MemoizedUnlessDefined(map, var_name) ==
    var_name \in DOMAIN map /\ var_name \notin DOMAIN var_fields

\* eval_impl: `var_map.get(&var_name)` is Some.
Memoized(map, var_name) == var_name \in DOMAIN map

\* A stack test that looks at the last pushed name only.
OnStackTop(stack, var_name) ==
    stack # <<>> /\ stack[Len(stack)] = var_name

\* A stack test that looks at the first pushed name only.
OnStackBottom(stack, var_name) ==
    stack # <<>> /\ stack[1] = var_name

\* eval_impl: `eval_stack.contains(&var_name)`.
OnStack(stack, var_name) == \E k \in 1..Len(stack) : stack[k] = var_name

Recursion(var_name) == [type |-> "Recursion", name |-> var_name]
UnknownVariable(var_name) == [type |-> "UnknownVariable", name |-> var_name]

\* SrcSrvStream::get_ini_field
GetIniField(ini, field_name) == Get(ini, ToAsciiLowercase(field_name))

\* SrcSrvStream::get_raw_var
GetRawVar(vf, var_name) ==
    LET key == ToAsciiLowercase(var_name)
    IN  IF key \in DOMAIN vf THEN Some(vf[key].raw) ELSE None

\* SrcSrvStream::add_vars_for_file: whether the file has a record, and the
\* map extended by var1..varN.
RECURSIVE ExtendWithVars(_, _, _)
ExtendWithVars(map, file_vars, k) ==
    IF k > Len(file_vars) THEN map
    ELSE ExtendWithVars(Insert(map, VarName(k), file_vars[k]), file_vars, k + 1)

\* add_vars_for_file returning Ok(true) also for a file without a record.
AddVarsForFileAlwaysFound(entries, file_path, map) ==
    LET key == ToAsciiLowercase(file_path)
    IN  IF key \in DOMAIN entries
        THEN [found |-> TRUE, map |-> ExtendWithVars(map, entries[key], 1)]
        ELSE [found |-> TRUE, map |-> map]

AddVarsForFile(entries, file_path, map) ==
    LET key == ToAsciiLowercase(file_path)
    IN  IF key \in DOMAIN entries
        THEN [found |-> TRUE, map |-> ExtendWithVars(map, entries[key], 1)]
        ELSE [found |-> FALSE, map |-> map]

\* error_persistence_version_control of source_and_raw_var_values_for_path:
\* the raw value of SRCSRVERRVAR, looked up as it is written in the map that
\* holds var1..varN at that point.
ErrorPersistence(errvar, map) ==
    IF errvar = None THEN None ELSE Get(map, errvar[1])

\* The environment of an ExecuteCommand: the entries of SRCSRVENV between
\* 0x08 bytes, each split at its first `=`, collected into a HashMap.
RECURSIVE CollectEnv(_, _)
CollectEnv(entries, acc) ==
    IF entries = <<>> THEN acc
    ELSE LET pair == SplitOnce(Head(entries), "=")
         IN  CollectEnv(Tail(entries),
                        IF pair.some THEN Insert(acc, pair.head, pair.tail)
                        ELSE acc)

\* An environment whose entries are split at their last `=`.
RECURSIVE CollectEnvAtLastEquals(_, _)
CollectEnvAtLastEquals(entries, acc) ==
    IF entries = <<>> THEN acc
    ELSE LET pair == RSplitOnce(Head(entries), "=")
         IN  CollectEnvAtLastEquals(Tail(entries),
                        IF pair.some THEN Insert(acc, pair.head, pair.tail)
                        ELSE acc)
EnvMapAtLastEquals(env) ==
    IF env = None THEN <<>>
    ELSE CollectEnvAtLastEquals(Split(env[1], BS), <<>>)

EnvMap(env) == IF env = None THEN <<>> ELSE CollectEnv(Split(env[1], BS), <<>>)

\* A classification that tests the target for a URL before the command.
ClassifyUrlFirst(target, command, env, version_ctrl, errp, map) ==
    IF StartsWith(target, HTTP) \/ StartsWith(target, HTTPS)
    THEN [type |-> "Download", url |-> target]
    ELSE IF command # None
    THEN [type |-> "ExecuteCommand",
          command |-> command[1],
          env |-> EnvMap(env),
          target_path |-> target,
          version_ctrl |-> version_ctrl,
          error_persistence_version_control |-> errp]
    ELSE [type |-> "Other", raw_var_values |-> map]

\* The classification at the end of source_and_raw_var_values_for_path.
Classify(target, command, env, version_ctrl, errp, map) ==
    IF command # None
    THEN [type |-> "ExecuteCommand",
          command |-> command[1],
          env |-> EnvMap(env),
          target_path |-> target,
          version_ctrl |-> version_ctrl,
          error_persistence_version_control |-> errp]
    ELSE IF StartsWith(target, HTTP) \/ StartsWith(target, HTTPS)
    THEN [type |-> "Download", url |-> target]
    ELSE [type |-> "Other", raw_var_values |-> map]

\* The results of a lookup: not yet returned, Ok(None), Ok(Some((method,
\* map))), Err(EvalError).
Pending == [type |-> "Pending"]
OkNone == [type |-> "OkNone"]
OkSome(method, map) == [type |-> "OkSome", method |-> method, map |-> map]
Err(err) == [type |-> "Err", err |-> err]

----------------------------------------------------------------------------
(* Bounds and input pools.                                                 *)

\* A macro string given to the parser is made of at most MaxPieces pieces.
MaxPieces == 4

\* The evaluation of one lookup holds at most MaxFrames frames: the call
\* stack of the thread is finite.
MaxFrames == 16

\* One lookup takes at most MaxSteps steps.
MaxSteps == 60

\* The calls of source_and_raw_var_values_for_path on one stream.
Lookups == {1, 2}

MacroPieces ==
    { <<"%">>, <<"(">>, <<")">>, <<"a">>,
      <<"%", "f", "n", "v", "a", "r", "%">>,
      <<"%", "F", "n", "F", "i", "l", "e", "%">> }

RECURSIVE MacroStrings(_)
MacroStrings(n) ==
    IF n = 0 THEN {<<>>}
    ELSE LET shorter == MacroStrings(n - 1)
         IN  shorter \cup {s \o p : s \in shorter, p \in MacroPieces}

\* `%name%`
Ref(name) == <<"%">> \o name \o <<"%">>
\* `%function%(argument)`
Call(function, argument) == Ref(function) \o <<"(">> \o argument \o <<")">>

\* The values the variables section may give to each variable; None: the
\* variable is not defined.
SrcSrvTrgValues ==
    { Ref(<<"a">>),
      Ref(TARG) \o <<"\\">> \o Call(<<"f", "n", "f", "i", "l", "e">>,
                                   Ref(<<"v", "a", "r", "1">>)),
      HTTP \o Ref(<<"V", "a", "r", "2">>) }

AValues ==
    { None,
      Some(Ref(<<"B">>)),
      Some(HTTPS \o Ref(<<"b">>)),
      Some(Call(<<"F", "n", "V", "a", "r">>, Ref(<<"v", "a", "r", "2">>))) }

BValues ==
    { None,
      Some(Call(<<"f", "n", "b", "k", "s", "l">>, Ref(<<"v", "a", "r", "2">>))),
      Some(Ref(<<"A">>) \o <<"x">>),
      Some(Ref(<<"S", "r", "c", "S", "r", "v", "T", "r", "g">>)) }

SrcSrvCmdValues ==
    { None,
      Some(<<"c", " ">> \o Ref(SRCSRVTRG)) }

SrcSrvEnvValues ==
    { None,
      Some(<<"K", "=", "1", BS, "B", "A", "D", BS, "J", "=", "a", "=", "b">>),
      Some(<<"K", "=", "1", BS, "K", "=">> \o Ref(<<"b">>)) }

SrcSrvVerCtrlValues ==
    { None,
      Some(Ref(<<"a">>)) }

SrcSrvErrVarValues ==
    { None,
      Some(<<"v", "a", "r", "2">>),
      Some(<<"V", "A", "R", "2">>),
      Some(<<"a">>) }

\* The lines of the source files section.
SourceFileLines ==
    << <<"D", "\\", "F", "*", "A">>,
       <<"d", "\\", "g", "*", "u", "/", "v", "*", "w">>,
       <<"E", "*", "b">>,
       <<"n">> >>

\* The lines of the ini section.
IniLines ==
    << <<"V", "E", "R", "S", "I", "O", "N", "=", "2">>,
       <<"V", "e", "r", "C", "t", "r", "l", "=", "h", "t", "t", "p">> >>

\* The paths and base paths a caller looks up.
LookupPaths ==
    { <<"d", "\\", "f">>, <<"D", "\\", "G">>, <<"e">>, <<"n">>, <<"z">> }

BasePaths == { <<"T">> }

----------------------------------------------------------------------------
(* The tables SrcSrvStream::parse builds from the lines of a section.      *)

\* The ini loop's insertion: the value under the lowercased name.
InsertIniField(ini, name, value) == Insert(ini, ToAsciiLowercase(name), value)

\* The variables loop's insertion: (raw value, node) under the lowercased
\* name.
InsertVarField(vf, name, value, node) ==
    Insert(vf, ToAsciiLowercase(name), [raw |-> value, node |-> node])

\* The number of fields a source file line is split into at most.
MaxFileVars == 10

\* The source files loop's insertion: the line split at `*` into at most 10
\* fields, under the lowercased first field.
InsertSourceFile(entries, line) ==
    LET file_vars == SplitN(MaxFileVars, line, "*")
    IN  Insert(entries, ToAsciiLowercase(file_vars[1]), file_vars)

\* The tables of a stream whose sections hold the given well-formed lines.
RECURSIVE IniFieldsOf(_, _)
IniFieldsOf(ini_lines, ini) ==
    IF ini_lines = <<>> THEN ini
    ELSE LET pair == SplitOnce(Head(ini_lines), "=")
         IN  IniFieldsOf(Tail(ini_lines),
                         InsertIniField(ini, pair.head, pair.tail))

RECURSIVE VarFieldsOf(_, _)
VarFieldsOf(var_lines, vf) ==
    IF var_lines = <<>> THEN vf
    ELSE LET pair == SplitOnce(Head(var_lines), "=")
         IN  VarFieldsOf(Tail(var_lines),
                         InsertVarField(vf, pair.head, pair.tail,
                                        AstParse(pair.tail).node))

RECURSIVE SourceFileEntriesOf(_, _)
SourceFileEntriesOf(file_lines, entries) ==
    IF file_lines = <<>> THEN entries
    ELSE SourceFileEntriesOf(Tail(file_lines),
                             InsertSourceFile(entries, Head(file_lines)))

\* A line `name=value` of the variables section, when the variable is defined.
VarLine(name, value) ==
    IF value = None THEN <<>> ELSE << name \o <<"=">> \o value[1] >>

----------------------------------------------------------------------------
(* Specification SpecAst: the macro parser on every bounded macro string.  *)

NoStream ==
    /\ version = 0
    /\ ini_fields = <<>>
    /\ var_fields = <<>>
    /\ source_file_entries = <<>>

NoLookup ==
    /\ pc = [i \in Lookups |-> "idle"]
    /\ args = [i \in Lookups |-> <<>>]
    /\ var_map = [i \in Lookups |-> <<>>]
    /\ eval_stack = [i \in Lookups |-> <<>>]
    /\ frames = [i \in Lookups |-> <<>>]
    /\ ctl = [i \in Lookups |-> [op |-> "none"]]
    /\ fields = [i \in Lookups |-> <<>>]
    /\ error_persistence = [i \in Lookups |-> None]
    /\ result = [i \in Lookups |-> Pending]
    /\ ast_evals = [i \in Lookups |-> <<>>]
    /\ requested = [i \in Lookups |-> <<>>]
    /\ steps = [i \in Lookups |-> 0]

NoParse ==
    /\ stream = <<>>
    /\ lines = <<>>
    /\ section = "none"
    /\ next_section_start_line = <<>>
    /\ parse_result = Pending

NoMacro ==
    /\ macro_input = <<>>
    /\ macro_result = [kind |-> "none"]

InitAst ==
    /\ macro_input \in MacroStrings(MaxPieces)
    /\ macro_result = [kind |-> "none"]
    /\ NoParse
    /\ NoStream
    /\ NoLookup

\* One call of AstNode::parse.
ParseMacro ==
    /\ macro_result.kind = "none"
    /\ macro_result' = AstParse(macro_input)
    /\ UNCHANGED <<macro_input, parseVars, streamVars, lookupVars>>

NextAst == ParseMacro

SpecAst == InitAst /\ [][NextAst]_vars

----------------------------------------------------------------------------
(* Specification SpecParse: SrcSrvStream::parse, line by line.             *)

\* The prefixes SrcSrvStream::parse tests lines for.
MarkerPrefix == <<"S", "R", "C", "S", "R", "V", ":">>
IniPrefix ==
    <<"S", "R", "C", "S", "R", "V", ":", " ", "i", "n", "i", " ", "-", "-">>
VariablesPrefix ==
    <<"S", "R", "C", "S", "R", "V", ":", " ", "v", "a", "r", "i", "a", "b",
      "l", "e", "s", " ", "-", "-">>
SourceFilesPrefix ==
    <<"S", "R", "C", "S", "R", "V", ":", " ", "s", "o", "u", "r", "c", "e",
      " ", "f", "i", "l", "e", "s", " ", "-", "-">>
EndPrefix ==
    <<"S", "R", "C", "S", "R", "V", ":", " ", "e", "n", "d", " ", "-", "-">>
VERSION == <<"V", "E", "R", "S", "I", "O", "N">>

\* The lines the streams given to the parser are made of.
IniLine ==
    <<"S", "R", "C", "S", "R", "V", ":", " ", "i", "n", "i", " ", "-", "-",
      "-", "-">>
VariablesLine ==
    <<"S", "R", "C", "S", "R", "V", ":", " ", "v", "a", "r", "i", "a", "b",
      "l", "e", "s", " ", "-", "-", "-", "-">>
SourceFilesLine ==
    <<"S", "R", "C", "S", "R", "V", ":", " ", "s", "o", "u", "r", "c", "e",
      " ", "f", "i", "l", "e", "s", " ", "-", "-", "-", "-">>
EndLine ==
    <<"S", "R", "C", "S", "R", "V", ":", " ", "e", "n", "d", " ", "-", "-",
      "-", "-">>
OtherMarkerLine == <<"S", "R", "C", "S", "R", "V", ":", " ", "x">>
ShortEndLine ==
    <<"S", "R", "C", "S", "R", "V", ":", " ", "e", "n", "d", " ", "-">>
Version1Line == <<"V", "E", "R", "S", "I", "O", "N", "=", "1">>
Version2Line == <<"V", "e", "r", "s", "i", "o", "n", "=", "2">>
Version3Line == <<"v", "e", "r", "s", "i", "o", "n", "=", "3">>
Version9Line == <<"V", "E", "R", "S", "I", "O", "N", "=", "9">>
VerCtrlLine == <<"V", "E", "R", "C", "T", "R", "L", "=", "h", "t", "t", "p">>
NoEqualsLine == <<"j", "u", "n", "k">>
TrgLine ==
    <<"S", "R", "C", "S", "R", "V", "T", "R", "G", "=", "%", "v", "a", "r",
      "2", "%">>
LowerTrgLine ==
    <<"s", "r", "c", "s", "r", "v", "t", "r", "g", "=", "%", "f", "n", "f",
      "i", "l", "e", "%", "(", "%", "v", "a", "r", "1", "%", ")">>
HelperLine == <<"A", "=", "x", "%", "b", "%">>
UnclosedPercentLine ==
    <<"S", "R", "C", "S", "R", "V", "T", "R", "G", "=", "%", "a">>
UnclosedParenLine ==
    <<"S", "R", "C", "S", "R", "V", "T", "R", "G", "=", "%", "f", "n", "v",
      "a", "r", "%", "(">>
FileLine == <<"D", "\\", "F", "*", "A">>
LongFileLine ==
    <<"p", "*", "2", "*", "3", "*", "4", "*", "5", "*", "6", "*", "7", "*",
      "8", "*", "9", "*", "a", "*", "b", "*", "c">>

\* The streams: an ini section, a variables section, a source files
\* section and an end, each well formed or not.
IniSections ==
    { <<>>, <<IniLine>>, <<OtherMarkerLine>>,
      <<IniLine, Version2Line, VerCtrlLine>>,
      <<IniLine, Version9Line>>,
      <<IniLine, VerCtrlLine>>,
      <<IniLine, Version1Line, Version3Line>>,
      <<IniLine, NoEqualsLine>> }

VariablesSections ==
    { <<>>, <<VariablesLine>>, <<OtherMarkerLine>>,
      <<VariablesLine, TrgLine>>,
      <<VariablesLine, HelperLine, LowerTrgLine>>,
      <<VariablesLine, HelperLine>>,
      <<VariablesLine, NoEqualsLine>>,
      <<VariablesLine, UnclosedPercentLine>>,
      <<VariablesLine, UnclosedParenLine>> }

SourceFilesSections ==
    { <<>>, <<SourceFilesLine>>, <<OtherMarkerLine>>,
      <<SourceFilesLine, FileLine>>,
      <<SourceFilesLine, FileLine, LongFileLine>> }

EndSections ==
    { <<>>, <<EndLine>>, <<OtherMarkerLine>>, <<ShortEndLine>>,
      <<EndLine, NoEqualsLine>> }

ParsedOk == [type |-> "Ok"]
ParseError(type) == [type |-> "Err", err |-> [type |-> type]]
UnrecognizedVersion(v) ==
    [type |-> "Err", err |-> [type |-> "UnrecognizedVersion", version |-> v]]
MacroError(r) ==
    IF r.kind = "panic" THEN [type |-> "Panic"]
    ELSE [type |-> "Err", err |-> r.err]

InitParse ==
    /\ NoMacro
    /\ \E ini \in IniSections, variables \in VariablesSections,
          files \in SourceFilesSections, end \in EndSections :
            stream = ini \o variables \o files \o end
    /\ lines = stream
    /\ section = "start"
    /\ next_section_start_line = <<>>
    /\ parse_result = Pending
    /\ NoStream
    /\ NoLookup

\* parse returns: no further line is read.
ParseReturns(r) ==
    /\ parse_result' = r
    /\ UNCHANGED section

\* The first line: the start of the ini section.
ParseFirstLine ==
    /\ section = "start"
    /\ parse_result = Pending
    /\ IF lines = <<>>
       THEN /\ ParseReturns(ParseError("UnexpectedEof"))
            /\ UNCHANGED lines
       ELSE /\ lines' = Tail(lines)
            /\ IF ~StartsWith(Head(lines), IniPrefix)
               THEN ParseReturns(ParseError("MissingIniSection"))
               ELSE /\ section' = "ini"
                    /\ UNCHANGED parse_result
    /\ UNCHANGED <<stream, next_section_start_line, astVars, streamVars,
                   lookupVars>>

\* A parse that takes an unrecognized version for version 1.
AfterIniSectionAnyVersion(line) ==
    LET v == Get(ini_fields, ToAsciiLowercase(VERSION))
    IN  IF v = None
        THEN ParseReturns(ParseError("MissingVersion")) /\ UNCHANGED version
        ELSE /\ version' = (CASE v[1] = <<"2">> -> 2
                              [] v[1] = <<"3">> -> 3
                              [] OTHER -> 1)
             /\ IF ~StartsWith(line, VariablesPrefix)
                THEN ParseReturns(ParseError("MissingVariablesSection"))
                ELSE /\ section' = "variables"
                     /\ UNCHANGED parse_result

\* What follows the ini loop: the version, and the start of the variables
\* section.
AfterIniSection(line) ==
    LET v == Get(ini_fields, ToAsciiLowercase(VERSION))
    IN  IF v = None
        THEN ParseReturns(ParseError("MissingVersion")) /\ UNCHANGED version
        ELSE IF v[1] \notin {<<"1">>, <<"2">>, <<"3">>}
        THEN ParseReturns(UnrecognizedVersion(v[1])) /\ UNCHANGED version
        ELSE /\ version' = (CASE v[1] = <<"1">> -> 1
                              [] v[1] = <<"2">> -> 2
                              [] v[1] = <<"3">> -> 3)
             /\ IF ~StartsWith(line, VariablesPrefix)
                THEN ParseReturns(ParseError("MissingVariablesSection"))
                ELSE /\ section' = "variables"
                     /\ UNCHANGED parse_result

\* One iteration of the ini loop.
ParseIniLine ==
    /\ section = "ini"
    /\ parse_result = Pending
    /\ IF lines = <<>>
       THEN /\ ParseReturns(ParseError("UnexpectedEof"))
            /\ UNCHANGED <<lines, next_section_start_line, version, ini_fields>>
       ELSE LET line == Head(lines)
                pair == SplitOnce(line, "=")
            IN  /\ lines' = Tail(lines)
                /\ IF StartsWith(line, MarkerPrefix)
                   THEN /\ next_section_start_line' = line
                        /\ AfterIniSection(line)
                        /\ UNCHANGED ini_fields
                   ELSE IF ~pair.some
                   THEN /\ ParseReturns(ParseError("MissingEquals"))
                        /\ UNCHANGED <<next_section_start_line, version,
                                       ini_fields>>
                   ELSE /\ ini_fields' =
                            InsertIniField(ini_fields, pair.head, pair.tail)
                        /\ UNCHANGED <<next_section_start_line, version,
                                       section, parse_result>>
    /\ UNCHANGED <<stream, var_fields, source_file_entries, astVars,
                   lookupVars>>

\* What follows the variables loop: SRCSRVTRG is there, and the start of the
\* source files section.
AfterVariablesSection(line) ==
    IF ToAsciiLowercase(SRCSRVTRG) \notin DOMAIN var_fields
    THEN ParseReturns(ParseError("MissingSrcSrvTrgField"))
    ELSE IF ~StartsWith(line, SourceFilesPrefix)
    THEN ParseReturns(ParseError("MissingSourceFilesSection"))
    ELSE /\ section' = "source files"
         /\ UNCHANGED parse_result

\* One iteration of the variables loop.
ParseVariablesLine ==
    /\ section = "variables"
    /\ parse_result = Pending
    /\ IF lines = <<>>
       THEN /\ ParseReturns(ParseError("UnexpectedEof"))
            /\ UNCHANGED <<lines, next_section_start_line, var_fields>>
       ELSE LET line == Head(lines)
                pair == SplitOnce(line, "=")
                node == AstParse(pair.tail)
            IN  /\ lines' = Tail(lines)
                /\ IF StartsWith(line, MarkerPrefix)
                   THEN /\ next_section_start_line' = line
                        /\ AfterVariablesSection(line)
                        /\ UNCHANGED var_fields
                   ELSE IF ~pair.some
                   THEN /\ ParseReturns(ParseError("MissingEquals"))
                        /\ UNCHANGED <<next_section_start_line, var_fields>>
                   ELSE IF node.kind # "ok"
                   THEN /\ ParseReturns(MacroError(node))
                        /\ UNCHANGED <<next_section_start_line, var_fields>>
                   ELSE /\ var_fields' =
                            InsertVarField(var_fields, pair.head, pair.tail,
                                           node.node)
                        /\ UNCHANGED <<next_section_start_line, section,
                                       parse_result>>
    /\ UNCHANGED <<stream, version, ini_fields, source_file_entries, astVars,
                   lookupVars>>

\* A parse that takes any `SRCSRV:` line for the end line.
AfterSourceFilesSectionUnchecked(line) == ParseReturns(ParsedOk)

\* What follows the source files loop: the end line, and Ok(SrcSrvStream).
AfterSourceFilesSection(line) ==
    IF ~StartsWith(line, EndPrefix)
    THEN ParseReturns(ParseError("MissingTerminationLine"))
    ELSE ParseReturns(ParsedOk)

\* One iteration of the source files loop.
ParseSourceFileLine ==
    /\ section = "source files"
    /\ parse_result = Pending
    /\ IF lines = <<>>
       THEN /\ ParseReturns(ParseError("UnexpectedEof"))
            /\ UNCHANGED <<lines, next_section_start_line,
                           source_file_entries>>
       ELSE LET line == Head(lines)
            IN  /\ lines' = Tail(lines)
                /\ IF StartsWith(line, MarkerPrefix)
                   THEN /\ next_section_start_line' = line
                        /\ AfterSourceFilesSection(line)
                        /\ UNCHANGED source_file_entries
                   ELSE /\ source_file_entries' =
                            InsertSourceFile(source_file_entries, line)
                        /\ UNCHANGED <<next_section_start_line, section,
                                       parse_result>>
    /\ UNCHANGED <<stream, version, ini_fields, var_fields, astVars,
                   lookupVars>>

NextParse ==
    \/ ParseFirstLine
    \/ ParseIniLine
    \/ ParseVariablesLine
    \/ ParseSourceFileLine

SpecParse == InitParse /\ [][NextParse]_vars

----------------------------------------------------------------------------
(* Specification Spec: lookups on a parsed stream.                         *)

\* The state after SrcSrvStream::parse returned Ok for a stream whose
\* variables section holds a value of each pool for its variables and the
\* lines of one element of `mores`, and whose source files section holds file_lines.
ParsedStream(trgs, as, bs, cmds, envs, verctrls, errvars, mores, file_lines) ==
    /\ NoMacro
    /\ NoParse
    /\ version = 2
    /\ ini_fields = IniFieldsOf(IniLines, <<>>)
    /\ \E trg \in trgs, a \in as, b \in bs, cmd \in cmds, env \in envs,
          verctrl \in verctrls, errvar \in errvars, more \in mores :
            var_fields =
                VarFieldsOf(VarLine(<<"A">>, a) \o VarLine(<<"b">>, b)
                              \o VarLine(SRCSRVVERCTRL, verctrl)
                              \o VarLine(SRCSRVERRVAR, errvar)
                              \o VarLine(SRCSRVTRG, Some(trg))
                              \o VarLine(SRCSRVCMD, cmd)
                              \o VarLine(SRCSRVENV, env)
                              \o more,
                            <<>>)
    /\ source_file_entries = SourceFileEntriesOf(file_lines, <<>>)
    /\ NoLookup

Init ==
    ParsedStream(SrcSrvTrgValues, AValues, BValues, SrcSrvCmdValues,
                 SrcSrvEnvValues, SrcSrvVerCtrlValues, SrcSrvErrVarValues,
                 {<<>>}, SourceFileLines)

\* The fields source_and_raw_var_values_for_path evaluates, in its order.
FieldName(position) ==
    CASE position = "trg" -> SRCSRVTRG
      [] position = "cmd" -> SRCSRVCMD
      [] position = "env" -> SRCSRVENV
      [] position = "verctrl" -> SRCSRVVERCTRL

\* An order of the fields that leaves SRCSRVENV out.
NextPositionWithoutEnv(position) ==
    CASE position = "trg" -> "cmd"
      [] position = "cmd" -> "verctrl"
      [] position = "env" -> "verctrl"

NextPosition(position) ==
    CASE position = "trg" -> "cmd"
      [] position = "cmd" -> "env"
      [] position = "env" -> "verctrl"

NoFields ==
    [trg |-> None, cmd |-> None, env |-> None, verctrl |-> None]

\* source_and_raw_var_values_for_path up to its first evaluation: the raw
\* SRCSRVERRVAR, a new map, add_vars_for_file (Ok(None) when the file has no
\* record), the error persistence value, and the insertion of targ.
LookupOf(i, paths, base_paths) ==
    /\ pc[i] = "idle"
    /\ \E original_file_path \in paths, extraction_base_path \in base_paths :
        LET error_persistence_version_control_var ==
                GetRawVar(var_fields, SRCSRVERRVAR)
            added == AddVarsForFile(source_file_entries, original_file_path, <<>>)
        IN  /\ args' = [args EXCEPT ![i] =
                            [original_file_path |-> original_file_path,
                             extraction_base_path |-> extraction_base_path]]
            /\ IF ~added.found
               THEN /\ result' = [result EXCEPT ![i] = OkNone]
                    /\ pc' = [pc EXCEPT ![i] = "done"]
                    /\ UNCHANGED <<var_map, error_persistence>>
               ELSE /\ error_persistence' =
                        [error_persistence EXCEPT ![i] =
                            ErrorPersistence(error_persistence_version_control_var,
                                             added.map)]
                    /\ var_map' = [var_map EXCEPT ![i] =
                                    Insert(added.map, TARG, extraction_base_path)]
                    /\ pc' = [pc EXCEPT ![i] = "trg"]
                    /\ UNCHANGED result
    /\ fields' = [fields EXCEPT ![i] = NoFields]
    /\ ast_evals' = [ast_evals EXCEPT ![i] = [n \in DOMAIN var_fields |-> 0]]
    /\ UNCHANGED <<eval_stack, frames, ctl, requested, astVars, parseVars, streamVars>>

\* A lookup of one of the paths and base paths of the pools.
Lookup(i) == LookupOf(i, LookupPaths, BasePaths)

\* A top-level field has its value (None: an optional field that is not
\* defined): the next field follows, and after SRCSRVVERCTRL the lookup
\* returns the classified method with the map.
FinishField(i, value, map) ==
    LET done == [fields[i] EXCEPT ![pc[i]] = value]
    IN  /\ fields' = [fields EXCEPT ![i] = done]
        /\ ctl' = [ctl EXCEPT ![i] = [op |-> "none"]]
        /\ IF pc[i] = "verctrl"
           THEN /\ pc' = [pc EXCEPT ![i] = "done"]
                /\ result' = [result EXCEPT ![i] =
                    OkSome(Classify(done.trg[1], done.cmd, done.env,
                                    done.verctrl, error_persistence[i], map),
                           map)]
           ELSE /\ pc' = [pc EXCEPT ![i] = NextPosition(pc[i])]
                /\ UNCHANGED result

\* evaluate_required_field: eval_impl of the lowercased name on a new stack.
EvaluateRequiredField(i) ==
    /\ pc[i] = "trg"
    /\ ctl[i].op = "none"
    /\ eval_stack' = [eval_stack EXCEPT ![i] = <<>>]
    /\ ctl' = [ctl EXCEPT ![i] =
                [op |-> "call", name |-> ToAsciiLowercase(FieldName(pc[i]))]]
    /\ UNCHANGED <<pc, args, var_map, frames, fields, error_persistence,
                   result, ast_evals, requested, astVars, parseVars, streamVars>>

\* evaluate_optional_field: None when the variable is not defined, else
\* eval_impl of the lowercased name on a new stack.
EvaluateOptionalField(i) ==
    /\ pc[i] \in {"cmd", "env", "verctrl"}
    /\ ctl[i].op = "none"
    /\ LET var_name == ToAsciiLowercase(FieldName(pc[i]))
       IN  IF var_name \notin DOMAIN var_fields
           THEN /\ FinishField(i, None, var_map[i])
                /\ UNCHANGED eval_stack
           ELSE /\ eval_stack' = [eval_stack EXCEPT ![i] = <<>>]
                /\ ctl' = [ctl EXCEPT ![i] = [op |-> "call", name |-> var_name]]
                /\ UNCHANGED <<pc, fields, result>>
    /\ UNCHANGED <<args, var_map, frames, error_persistence, ast_evals,
                   requested, astVars, parseVars, streamVars>>

\* eval_impl up to node.eval: the memoized value, the recursion error, the
\* push, the unknown variable error, or the evaluation of the node.
EvalImpl(i) ==
    /\ ctl[i].op = "call"
    /\ Len(frames[i]) < MaxFrames
    /\ LET var_name == ctl[i].name
       IN  /\ requested' = [requested EXCEPT ![i] =
                            Insert(@, var_name, Count(@, var_name) + 1)]
           /\ IF Memoized(var_map[i], var_name)
              THEN /\ ctl' = [ctl EXCEPT ![i] =
                                [op |-> "ret", val |-> var_map[i][var_name]]]
                   /\ UNCHANGED <<eval_stack, frames, ast_evals>>
              ELSE IF OnStack(eval_stack[i], var_name)
              THEN /\ ctl' = [ctl EXCEPT ![i] =
                                [op |-> "err", err |-> Recursion(var_name)]]
                   /\ UNCHANGED <<eval_stack, frames, ast_evals>>
              ELSE /\ eval_stack' = [eval_stack EXCEPT ![i] = Append(@, var_name)]
                   /\ IF var_name \notin DOMAIN var_fields
                      THEN /\ ctl' = [ctl EXCEPT ![i] =
                                [op |-> "err", err |-> UnknownVariable(var_name)]]
                           /\ UNCHANGED <<frames, ast_evals>>
                      ELSE /\ frames' = [frames EXCEPT ![i] =
                                Append(@, [kind |-> "eval_impl",
                                           var_name |-> var_name])]
                           /\ ctl' = [ctl EXCEPT ![i] =
                                [op |-> "eval",
                                 node |-> var_fields[var_name].node]]
                           /\ ast_evals' = [ast_evals EXCEPT ![i][var_name] = @ + 1]
    /\ UNCHANGED <<pc, args, var_map, fields, error_persistence, result,
                   astVars, parseVars, streamVars>>

\* AstNode::eval entered on a node: a literal returns its text, a variable
\* calls the get_var closure, a sequence and the functions evaluate their
\* (first) child.
EvalNode(i) ==
    /\ ctl[i].op = "eval"
    /\ Len(frames[i]) < MaxFrames
    /\ LET node == ctl[i].node
       IN  CASE node.type = "LiteralString" ->
                    /\ ctl' = [ctl EXCEPT ![i] = [op |-> "ret", val |-> node.s]]
                    /\ UNCHANGED frames
             [] node.type = "Variable" ->
                    /\ ctl' = [ctl EXCEPT ![i] =
                                [op |-> "call", name |-> GetVarName(node.name)]]
                    /\ UNCHANGED frames
             [] node.type = "Sequence" ->
                    IF node.nodes = <<>>
                    THEN /\ ctl' = [ctl EXCEPT ![i] = [op |-> "ret", val |-> <<>>]]
                         /\ UNCHANGED frames
                    ELSE /\ frames' = [frames EXCEPT ![i] =
                                Append(@, [kind |-> "Sequence",
                                           nodes |-> Tail(node.nodes),
                                           values |-> <<>>])]
                         /\ ctl' = [ctl EXCEPT ![i] =
                                [op |-> "eval", node |-> Head(node.nodes)]]
             [] node.type \in {"FnVar", "FnBackslash", "FnFile"} ->
                    /\ frames' = [frames EXCEPT ![i] =
                                Append(@, [kind |-> node.type])]
                    /\ ctl' = [ctl EXCEPT ![i] =
                                [op |-> "eval", node |-> node.node]]
    /\ UNCHANGED <<pc, args, var_map, eval_stack, fields, error_persistence,
                   result, ast_evals, requested, astVars, parseVars, streamVars>>

TopFrame(i) == frames[i][Len(frames[i])]
PopFrame(i) == SubSeq(frames[i], 1, Len(frames[i]) - 1)

Returning(i, kind) ==
    /\ ctl[i].op = "ret"
    /\ frames[i] # <<>>
    /\ TopFrame(i).kind = kind

\* A sequence that puts the value of each child before the values it has.
ReturnToSequenceReversed(i) ==
    /\ Returning(i, "Sequence")
    /\ LET frame == TopFrame(i)
           values == <<ctl[i].val>> \o frame.values
       IN  IF frame.nodes = <<>>
           THEN /\ frames' = [frames EXCEPT ![i] = PopFrame(i)]
                /\ ctl' = [ctl EXCEPT ![i] = [op |-> "ret", val |-> Join(values)]]
           ELSE /\ frames' = [frames EXCEPT ![i] =
                        Append(PopFrame(i), [kind |-> "Sequence",
                                             nodes |-> Tail(frame.nodes),
                                             values |-> values])]
                /\ ctl' = [ctl EXCEPT ![i] =
                        [op |-> "eval", node |-> Head(frame.nodes)]]
    /\ UNCHANGED <<pc, args, var_map, eval_stack, fields, error_persistence,
                   result, ast_evals, requested, astVars, parseVars, streamVars>>

\* AstNode::eval, Sequence: a child returned its value; the next child is
\* evaluated, and after the last one the values are joined.
ReturnToSequence(i) ==
    /\ Returning(i, "Sequence")
    /\ LET frame == TopFrame(i)
           values == Append(frame.values, ctl[i].val)
       IN  IF frame.nodes = <<>>
           THEN /\ frames' = [frames EXCEPT ![i] = PopFrame(i)]
                /\ ctl' = [ctl EXCEPT ![i] = [op |-> "ret", val |-> Join(values)]]
           ELSE /\ frames' = [frames EXCEPT ![i] =
                        Append(PopFrame(i), [kind |-> "Sequence",
                                             nodes |-> Tail(frame.nodes),
                                             values |-> values])]
                /\ ctl' = [ctl EXCEPT ![i] =
                        [op |-> "eval", node |-> Head(frame.nodes)]]
    /\ UNCHANGED <<pc, args, var_map, eval_stack, fields, error_persistence,
                   result, ast_evals, requested, astVars, parseVars, streamVars>>

\* AstNode::eval, FnVar: the child returned the name; the variable of that
\* name is requested from the get_var closure.
ReturnToFnVar(i) ==
    /\ Returning(i, "FnVar")
    /\ frames' = [frames EXCEPT ![i] = PopFrame(i)]
    /\ ctl' = [ctl EXCEPT ![i] = [op |-> "call", name |-> GetVarName(ctl[i].val)]]
    /\ UNCHANGED <<pc, args, var_map, eval_stack, fields, error_persistence,
                   result, ast_evals, requested, astVars, parseVars, streamVars>>

\* AstNode::eval, FnBackslash: the child's value with its slashes replaced.
ReturnToFnBackslash(i) ==
    /\ Returning(i, "FnBackslash")
    /\ frames' = [frames EXCEPT ![i] = PopFrame(i)]
    /\ ctl' = [ctl EXCEPT ![i] =
                [op |-> "ret", val |-> FnBackslashValue(ctl[i].val)]]
    /\ UNCHANGED <<pc, args, var_map, eval_stack, fields, error_persistence,
                   result, ast_evals, requested, astVars, parseVars, streamVars>>

\* AstNode::eval, FnFile: the file name of the child's value.
ReturnToFnFile(i) ==
    /\ Returning(i, "FnFile")
    /\ frames' = [frames EXCEPT ![i] = PopFrame(i)]
    /\ ctl' = [ctl EXCEPT ![i] = [op |-> "ret", val |-> FnFileValue(ctl[i].val)]]
    /\ UNCHANGED <<pc, args, var_map, eval_stack, fields, error_persistence,
                   result, ast_evals, requested, astVars, parseVars, streamVars>>

\* A memoization into one map that the lookups on a stream share.
ReturnToEvalImplShared(i) ==
    /\ Returning(i, "eval_impl")
    /\ frames' = [frames EXCEPT ![i] = PopFrame(i)]
    /\ var_map' = [j \in Lookups |->
                    IF pc[j] \in {"idle", "done"} /\ j # i THEN var_map[j]
                    ELSE Insert(var_map[j], TopFrame(i).var_name, ctl[i].val)]
    /\ eval_stack' = [eval_stack EXCEPT ![i] = SubSeq(@, 1, Len(@) - 1)]
    /\ ctl' = [ctl EXCEPT ![i] = [op |-> "ret", val |-> ctl[i].val]]
    /\ UNCHANGED <<pc, args, fields, error_persistence, result, ast_evals,
                   requested, astVars, parseVars, streamVars>>

\* eval_impl after node.eval returned Ok: the value is memoized, the name
\* popped from the stack, the value returned.
ReturnToEvalImpl(i) ==
    /\ Returning(i, "eval_impl")
    /\ frames' = [frames EXCEPT ![i] = PopFrame(i)]
    /\ var_map' = [var_map EXCEPT ![i] =
                    Insert(@, TopFrame(i).var_name, ctl[i].val)]
    /\ eval_stack' = [eval_stack EXCEPT ![i] = SubSeq(@, 1, Len(@) - 1)]
    /\ ctl' = [ctl EXCEPT ![i] = [op |-> "ret", val |-> ctl[i].val]]
    /\ UNCHANGED <<pc, args, fields, error_persistence, result, ast_evals,
                   requested, astVars, parseVars, streamVars>>

\* evaluate_required_field or evaluate_optional_field returned Ok to
\* source_and_raw_var_values_for_path.
ReturnToField(i) ==
    /\ ctl[i].op = "ret"
    /\ frames[i] = <<>>
    /\ FinishField(i, Some(ctl[i].val), var_map[i])
    /\ UNCHANGED <<args, var_map, eval_stack, frames, error_persistence,
                   ast_evals, requested, astVars, parseVars, streamVars>>

\* An Err(EvalError) leaves every function with `?`: no eval_impl in flight
\* memoizes or pops, and the lookup returns the error.
Fail(i) ==
    /\ ctl[i].op = "err"
    /\ result' = [result EXCEPT ![i] = Err(ctl[i].err)]
    /\ pc' = [pc EXCEPT ![i] = "done"]
    /\ frames' = [frames EXCEPT ![i] = <<>>]
    /\ ctl' = [ctl EXCEPT ![i] = [op |-> "none"]]
    /\ UNCHANGED <<args, var_map, eval_stack, fields, error_persistence,
                   ast_evals, requested, astVars, parseVars, streamVars>>

\* One step of a lookup that has started.
Evaluate(i) ==
    /\ steps[i] < MaxSteps
    /\ steps' = [steps EXCEPT ![i] = @ + 1]
    /\ \/ EvaluateRequiredField(i)
       \/ EvaluateOptionalField(i)
       \/ EvalImpl(i)
       \/ EvalNode(i)
       \/ ReturnToSequence(i)
       \/ ReturnToFnVar(i)
       \/ ReturnToFnBackslash(i)
       \/ ReturnToFnFile(i)
       \/ ReturnToEvalImpl(i)
       \/ ReturnToField(i)
       \/ Fail(i)

\* The call of a lookup with a path and a base path of the given sets.
CallLookup(i, paths, base_paths) ==
    /\ steps[i] < MaxSteps
    /\ steps' = [steps EXCEPT ![i] = @ + 1]
    /\ LookupOf(i, paths, base_paths)

\* One step of lookup i.
Step(i) ==
    /\ steps[i] < MaxSteps
    /\ steps' = [steps EXCEPT ![i] = @ + 1]
    /\ \/ Lookup(i)
       \/ EvaluateRequiredField(i)
       \/ EvaluateOptionalField(i)
       \/ EvalImpl(i)
       \/ EvalNode(i)
       \/ ReturnToSequence(i)
       \/ ReturnToFnVar(i)
       \/ ReturnToFnBackslash(i)
       \/ ReturnToFnFile(i)
       \/ ReturnToEvalImpl(i)
       \/ ReturnToField(i)
       \/ Fail(i)

\* One caller: a single lookup runs on the stream.
Next == Step(1)

Spec == Init /\ [][Next]_vars

----------------------------------------------------------------------------
(* Specification SpecSeeded: lookups on streams whose records have one, two, *)
(* ten and twelve fields and whose variables section may define targ, var1   *)
(* and var2.                                                                 *)

\* The lines of the source files section: twelve fields, ten fields, one
\* field, two fields.
SeededFileLines ==
    << <<"P", "*", "2", "*", "3", "*", "4", "*", "5", "*", "6", "*", "7", "*",
         "8", "*", "9", "*", "a", "*", "b", "*", "c">>,
       <<"q", "*", "2", "*", "3", "*", "4", "*", "5", "*", "6", "*", "7", "*",
         "8", "*", "9", "*", "0">>,
       <<"n">>,
       <<"D", "\\", "F", "*", "A">> >>

SeededPaths == { <<"p">>, <<"Q">>, <<"N">>, <<"d", "\\", "f">>, <<"z">> }

SeededTrgValues ==
    { Ref(<<"v", "a", "r", "1", "0">>),
      Ref(<<"V", "A", "R", "2">>) \o <<"|">> \o Ref(TARG) \o <<"|">>
            \o Ref(<<"V", "a", "r", "1">>),
      Ref(<<"v", "a", "r", "1", "1">>),
      Ref(<<"u">>) \o Ref(<<"a">>),
      Ref(<<"a">>) \o Ref(<<"u">>) \o Ref(<<"w">>),
      Call(<<"f", "n", "f", "i", "l", "e">>, Ref(<<"v", "a", "r", "1">>))
            \o Call(<<"f", "n", "b", "k", "s", "l">>, Ref(<<"a">>)) }

SeededAValues ==
    { None,
      Some(<<"x", "/">> \o Ref(<<"b">>)),
      Some(Call(<<"f", "n", "v", "a", "r">>, Ref(<<"v", "a", "r", "2">>))) }

SeededBValues ==
    { None,
      Some(<<"y">>),
      Some(Ref(<<"v", "a", "r", "2">>)) }

\* Lines of the variables section that define targ, var1 and var2.
SeededNameLines ==
    << <<"t", "a", "r", "g", "=", "Z">>,
       <<"V", "A", "R", "1", "=", "k">>,
       <<"v", "a", "r", "2", "=", "m">> \o Ref(<<"b">>) >>

InitSeeded ==
    ParsedStream(SeededTrgValues, SeededAValues, SeededBValues, {None},
                 {None}, {None}, {None}, {<<>>, SeededNameLines},
                 SeededFileLines)

NextSeeded ==
    \/ CallLookup(1, SeededPaths, BasePaths)
    \/ Evaluate(1)

SpecSeeded == InitSeeded /\ [][NextSeeded]_vars

----------------------------------------------------------------------------
(* Specification SpecConcurrent: two lookups on one parsed stream, their   *)
(* steps interleaved in every order (`&self` is shared between threads).   *)

ConcurrentTrgValues ==
    { Ref(<<"a">>),
      Ref(TARG) \o <<"\\">> \o Call(<<"f", "n", "f", "i", "l", "e">>,
                                   Ref(<<"v", "a", "r", "1">>)) }

ConcurrentAValues ==
    { Some(HTTPS \o Ref(<<"b">>)),
      Some(Call(<<"F", "n", "V", "a", "r">>, Ref(<<"v", "a", "r", "2">>))) }

ConcurrentBValues ==
    { None,
      Some(Call(<<"f", "n", "b", "k", "s", "l">>, Ref(<<"v", "a", "r", "2">>))
            \o Ref(TARG)),
      Some(Ref(<<"S", "r", "c", "S", "r", "v", "T", "r", "g">>)) }

ConcurrentPaths == { <<"d", "\\", "f">>, <<"D", "\\", "G">>, <<"z">> }

ConcurrentBasePaths == { <<"T">>, <<"U">> }

InitConcurrent ==
    ParsedStream(ConcurrentTrgValues, ConcurrentAValues, ConcurrentBValues,
                 {None}, {None}, {None}, {None}, {<<>>}, SourceFileLines)

NextConcurrent ==
    \E i \in Lookups :
        \/ CallLookup(i, ConcurrentPaths, ConcurrentBasePaths)
        \/ Evaluate(i)

SpecConcurrent == InitConcurrent /\ [][NextConcurrent]_vars

----------------------------------------------------------------------------
(* Properties of the lookup, of the stream parser and of the macro parser. *)

Started(i) == pc[i] # "idle"
Returned(i) == pc[i] = "done"

\* The number of calls of eval_impl in flight.
ImplDepth(i) ==
    Cardinality({k \in 1..Len(frames[i]) : frames[i][k].kind = "eval_impl"})
        + (IF ctl[i].op = "call" THEN 1 ELSE 0)

\* The text starts with the prefix.
HasPrefix(text, prefix) ==
    /\ Len(text) >= Len(prefix)
    /\ \A k \in 1..Len(prefix) : text[k] = prefix[k]

\* The resolution algorithm run on its own, as one recursive computation:
\* the value of a name under a map of bindings and a stack of names, with the
\* map as it is afterwards. A sequence resolves its children from left to
\* right and stops at the first error.
RECURSIVE AloneImpl(_, _, _), AloneNode(_, _, _), AloneSequence(_, _, _, _)
AloneImpl(var_name, map, stack) ==
    IF var_name \in DOMAIN map
    THEN [ok |-> TRUE, val |-> map[var_name], map |-> map]
    ELSE IF \E k \in 1..Len(stack) : stack[k] = var_name
    THEN [ok |-> FALSE, err |-> Recursion(var_name), map |-> map]
    ELSE IF var_name \notin DOMAIN var_fields
    THEN [ok |-> FALSE, err |-> UnknownVariable(var_name), map |-> map]
    ELSE LET r == AloneNode(var_fields[var_name].node, map,
                            Append(stack, var_name))
         IN  IF r.ok
             THEN [ok |-> TRUE, val |-> r.val,
                   map |-> Insert(r.map, var_name, r.val)]
             ELSE r

AloneNode(node, map, stack) ==
    CASE node.type = "LiteralString" ->
            [ok |-> TRUE, val |-> node.s, map |-> map]
      [] node.type = "Variable" ->
            AloneImpl(ToAsciiLowercase(node.name), map, stack)
      [] node.type = "Sequence" ->
            AloneSequence(node.nodes, <<>>, map, stack)
      [] node.type = "FnVar" ->
            LET r == AloneNode(node.node, map, stack)
            IN  IF r.ok THEN AloneImpl(ToAsciiLowercase(r.val), r.map, stack)
                ELSE r
      [] node.type = "FnBackslash" ->
            LET r == AloneNode(node.node, map, stack)
            IN  IF r.ok
                THEN [ok |-> TRUE,
                      val |-> [k \in 1..Len(r.val) |->
                                 IF r.val[k] = "/" THEN "\\" ELSE r.val[k]],
                      map |-> r.map]
                ELSE r
      [] node.type = "FnFile" ->
            LET r == AloneNode(node.node, map, stack)
                cut == {k \in 1..Len(r.val) : r.val[k] = "\\"}
                last == CHOOSE k \in cut : \A j \in cut : j <= k
            IN  IF r.ok
                THEN [ok |-> TRUE,
                      val |-> IF cut = {} THEN r.val
                              ELSE SubSeq(r.val, last + 1, Len(r.val)),
                      map |-> r.map]
                ELSE r

AloneSequence(nodes, text, map, stack) ==
    IF nodes = <<>> THEN [ok |-> TRUE, val |-> text, map |-> map]
    ELSE LET r == AloneNode(Head(nodes), map, stack)
         IN  IF r.ok
             THEN AloneSequence(Tail(nodes), text \o r.val, r.map, stack)
             ELSE r

\* A top-level field on its own: None for an optional field that is not
\* defined.
AloneField(name, optional, map) ==
    LET var_name == ToAsciiLowercase(name)
        r == AloneImpl(var_name, map, <<>>)
    IN  IF optional /\ var_name \notin DOMAIN var_fields
        THEN [ok |-> TRUE, val |-> None, map |-> map]
        ELSE IF r.ok THEN [ok |-> TRUE, val |-> Some(r.val), map |-> r.map]
        ELSE r

\* The bindings a lookup starts with: var1..varN of the record and targ.
SeededMap(path, base) ==
    Insert(AddVarsForFile(source_file_entries, path, <<>>).map, TARG, base)

\* A lookup on its own: the four fields in their order, the first error
\* returned, the method classified once all four are resolved.
AloneLookup(path, base) ==
    LET added == AddVarsForFile(source_file_entries, path, <<>>)
        errp == ErrorPersistence(GetRawVar(var_fields, SRCSRVERRVAR), added.map)
        trg == AloneField(SRCSRVTRG, FALSE, SeededMap(path, base))
        cmd == AloneField(SRCSRVCMD, TRUE, trg.map)
        env == AloneField(SRCSRVENV, TRUE, cmd.map)
        verctrl == AloneField(SRCSRVVERCTRL, TRUE, env.map)
    IN  IF ~added.found THEN [result |-> OkNone, map |-> <<>>]
        ELSE IF ~trg.ok THEN [result |-> Err(trg.err), map |-> trg.map]
        ELSE IF ~cmd.ok THEN [result |-> Err(cmd.err), map |-> cmd.map]
        ELSE IF ~env.ok THEN [result |-> Err(env.err), map |-> env.map]
        ELSE IF ~verctrl.ok
        THEN [result |-> Err(verctrl.err), map |-> verctrl.map]
        ELSE [result |-> OkSome(Classify(trg.val[1], cmd.val, env.val,
                                         verctrl.val, errp, verctrl.map),
                                verctrl.map),
              map |-> verctrl.map]

\* The lookup i on its own.
Alone(i) ==
    AloneLookup(args[i].original_file_path, args[i].extraction_base_path)

\* A single lookup gives the result and the bindings of the computation
\* above.
LookupIsAlone ==
    \A i \in Lookups :
        Returned(i) => /\ result[i] = Alone(i).result
                       /\ var_map[i] = Alone(i).map

\* The record of the looked up file holds the given second field.
LooksUp(i, path, field2) ==
    /\ Started(i)
    /\ ToAsciiLowercase(args[i].original_file_path) = path
    /\ path \in DOMAIN source_file_entries
    /\ Len(source_file_entries[path]) >= 2
    /\ source_file_entries[path][2] = field2

\* C1: a request for a variable that is on the resolution stack (a cycle of
\* any length, also one closed through a name computed by %fnvar%) makes
\* the next step the recursion error naming that variable, and an error
\* becomes the result of the lookup, which is then never a value.
C1_CycleGivesRecursion ==
    [][\A i \in Lookups :
        /\ (ctl[i].op = "call" /\ ctl[i].name \in Range(eval_stack[i]))
            => /\ ctl'[i].op = "err"
               /\ ctl'[i].err.type = "Recursion"
               /\ ctl'[i].err.name = ctl[i].name
        /\ ctl[i].op = "err"
            => /\ Returned(i)'
               /\ result'[i].type = "Err"
               /\ result'[i].err = ctl[i].err
        /\ result[i].type = "Err" => result'[i] = result[i]
      ]_vars

\* C1 witness: a lookup returned the recursion error of a cycle through
\* three variables (SRCSRVTRG, a and b).
C1_Witness ==
    \E i \in Lookups :
        /\ Returned(i)
        /\ result[i].type = "Err"
        /\ result[i].err.type = "Recursion"
        /\ result[i].err.name = ToAsciiLowercase(SRCSRVTRG)
        /\ Len(eval_stack[i]) = 3

\* C2: a started lookup that has not returned can take its next step, and
\* takes MaxSteps steps at most; the calls of eval_impl in flight are at
\* most one more than the distinct names requested so far; a returned
\* lookup has exactly one of not found, a method, or an error.
C2_LookupTerminates ==
    \A i \in Lookups :
        /\ ImplDepth(i) <= Cardinality(DOMAIN requested[i]) + 1
        /\ Returned(i) <=> result[i].type \in {"OkNone", "OkSome", "Err"}
        /\ (Started(i) /\ ~Returned(i)) => ENABLED Step(i)

\* C2 witness: four calls of eval_impl are nested, one more than the three
\* names requested so far (SRCSRVTRG, a, b, and SRCSRVTRG again).
C2_Witness ==
    \E i \in Lookups :
        /\ ImplDepth(i) = 4
        /\ Cardinality(DOMAIN requested[i]) = 3

\* C3: no variable's AST is evaluated twice in a lookup, a request for a
\* name that has a value in the map returns that value without evaluating
\* anything, and a value of the map is never changed or removed.
C3_MemoizedOnce ==
    [][\A i \in Lookups :
        /\ \A n \in DOMAIN ast_evals'[i] : ast_evals'[i][n] <= 1
        /\ \A n \in DOMAIN var_map[i] :
            /\ n \in DOMAIN var_map'[i]
            /\ var_map'[i][n] = var_map[i][n]
        /\ (ctl[i].op = "call" /\ ctl[i].name \in DOMAIN var_map[i])
            => /\ ctl'[i].op = "ret"
               /\ ctl'[i].val = var_map[i][ctl[i].name]
               /\ ast_evals'[i] = ast_evals[i]
      ]_vars

\* C3 witness: a variable of the table was requested twice in a lookup that
\* returned a method, and its AST was evaluated once.
C3_Witness ==
    \E i \in Lookups :
        /\ result[i].type = "OkSome"
        /\ \E n \in DOMAIN var_fields :
            /\ Count(requested[i], n) >= 2
            /\ ast_evals[i][n] = 1

\* C5: a lookup of a path that is no key of the source file table returns
\* Ok(None) and requests no variable.
C5_AbsentFileIsNone ==
    \A i \in Lookups :
        (/\ Returned(i)
         /\ ToAsciiLowercase(args[i].original_file_path)
                \notin DOMAIN source_file_entries)
        => /\ result[i].type = "OkNone"
           /\ DOMAIN requested[i] = {}
           /\ \A n \in DOMAIN ast_evals[i] : ast_evals[i][n] = 0

\* C5 witness: Ok(None) on a stream whose SRCSRVTRG refers to a variable
\* that is not defined.
C5_Witness ==
    \E i \in Lookups :
        /\ Returned(i)
        /\ result[i].type = "OkNone"
        /\ var_fields[ToAsciiLowercase(SRCSRVTRG)].raw = <<"%", "a", "%">>
        /\ <<"a">> \notin DOMAIN var_fields

\* C6: a returned method is ExecuteCommand with the resolved SRCSRVCMD and
\* SRCSRVTRG when SRCSRVCMD is defined, else Download of the resolved
\* SRCSRVTRG when that starts with http:// or https://, else Other with the
\* map.
C6_Classification ==
    \A i \in Lookups :
        result[i].type = "OkSome" =>
            LET method == result[i].method
                target == var_map[i][ToAsciiLowercase(SRCSRVTRG)]
                cmd == ToAsciiLowercase(SRCSRVCMD)
                is_url == HasPrefix(target, HTTP) \/ HasPrefix(target, HTTPS)
            IN  IF cmd \in DOMAIN var_fields
                THEN /\ method.type = "ExecuteCommand"
                     /\ method.command = var_map[i][cmd]
                     /\ method.target_path = target
                ELSE IF is_url
                THEN /\ method.type = "Download"
                     /\ method.url = target
                ELSE /\ method.type = "Other"
                     /\ method.raw_var_values = var_map[i]

\* C6 witness: an ExecuteCommand whose target is an http URL.
C6_Witness ==
    \E i \in Lookups :
        /\ result[i].type = "OkSome"
        /\ result[i].method.type = "ExecuteCommand"
        /\ HasPrefix(result[i].method.target_path, HTTP)

\* The entries of a resolved SRCSRVENV: the texts between its 0x08 bytes.
EnvEntries(env) ==
    LET cuts == {0, Len(env) + 1} \cup {k \in 1..Len(env) : env[k] = BS}
    IN  { SubSeq(env, from + 1, to - 1) :
            <<from, to>> \in {c \in cuts \X cuts :
                /\ c[1] < c[2]
                /\ \A k \in cuts : ~(c[1] < k /\ k < c[2])} }
HasEquals(entry) == \E k \in 1..Len(entry) : entry[k] = "="
FirstEquals(entry) ==
    CHOOSE k \in 1..Len(entry) :
        entry[k] = "=" /\ \A j \in 1..(k - 1) : entry[j] # "="
EntryName(entry) == SubSeq(entry, 1, FirstEquals(entry) - 1)
EntryValue(entry) == SubSeq(entry, FirstEquals(entry) + 1, Len(entry))

\* The resolved SRCSRVENV of a lookup that returned an ExecuteCommand, None
\* when SRCSRVENV is not defined.
ResolvedEnv(i) == Get(var_map[i], ToAsciiLowercase(SRCSRVENV))
IsExecuteCommand(i) ==
    /\ result[i].type = "OkSome"
    /\ result[i].method.type = "ExecuteCommand"

\* C7, as claimed: the environment holds exactly the (name, value) pairs of
\* the entries with an `=`, and is empty when SRCSRVENV is not defined.
C7_EnvExactlyThePairs ==
    \A i \in Lookups :
        IsExecuteCommand(i) =>
            LET env == result[i].method.env
                pairs == {<<n, env[n]>> : n \in DOMAIN env}
            IN  IF ResolvedEnv(i) = None THEN pairs = {}
                ELSE pairs =
                        { <<EntryName(e), EntryValue(e)>> :
                            e \in {x \in EnvEntries(ResolvedEnv(i)[1]) :
                                        HasEquals(x)} }

\* The position of the last entry of that name in a resolved SRCSRVENV.
EntryAt(env, k) ==
    LET ends == {Len(env) + 1} \cup {j \in 1..Len(env) : env[j] = BS}
        to == CHOOSE e \in ends : e > k /\ \A x \in ends : x > k => e <= x
    IN  SubSeq(env, k + 1, to - 1)
LastValue(env, name) ==
    LET starts == {0} \cup {j \in 1..Len(env) : env[j] = BS}
        named == {k \in starts : /\ HasEquals(EntryAt(env, k))
                                 /\ EntryName(EntryAt(env, k)) = name}
        last == CHOOSE k \in named : \A x \in named : x <= k
    IN  EntryValue(EntryAt(env, last))

\* C7, amended: the names of the environment are the names of the entries
\* with an `=` (split at the first `=`), each with the value of the last
\* entry of that name; it is empty when SRCSRVENV is not defined.
C7_EnvLastEntryWins ==
    \A i \in Lookups :
        IsExecuteCommand(i) =>
            LET env == result[i].method.env
            IN  IF ResolvedEnv(i) = None THEN DOMAIN env = {}
                ELSE /\ DOMAIN env =
                            { EntryName(e) :
                                e \in {x \in EnvEntries(ResolvedEnv(i)[1]) :
                                            HasEquals(x)} }
                     /\ \A n \in DOMAIN env :
                            env[n] = LastValue(ResolvedEnv(i)[1], n)

\* C7 witness: an environment from entries of which one has no `=` and one
\* has a value with an `=`.
C7_Witness ==
    \E i \in Lookups :
        /\ IsExecuteCommand(i)
        /\ ResolvedEnv(i) # None
        /\ \E e \in EnvEntries(ResolvedEnv(i)[1]) : ~HasEquals(e)
        /\ DOMAIN result[i].method.env = {<<"K">>, <<"J">>}
        /\ result[i].method.env[<<"J">>] = <<"a", "=", "b">>

\* C8, as claimed: the error persistence value of an ExecuteCommand is the
\* resolved value of the variable SRCSRVERRVAR names, the name compared
\* without regard to case, for every variable resolved in the lookup, and
\* None only when SRCSRVERRVAR is not defined.
C8_ErrorPersistenceResolved ==
    \A i \in Lookups :
        IsExecuteCommand(i) =>
            LET errvar == GetRawVar(var_fields, SRCSRVERRVAR)
                value == result[i].method.error_persistence_version_control
            IN  IF errvar = None THEN value = None
                ELSE /\ value # None
                     /\ ToAsciiLowercase(errvar[1]) \in DOMAIN var_map[i]
                            => value = Some(var_map[i][ToAsciiLowercase(errvar[1])])

\* The names a caller may write for a key, in several cases of letters.
CaseVariants(names) ==
    UNION { {n, ToAsciiLowercase(n),
             [k \in 1..Len(n) |-> IF k = 1 THEN n[k] ELSE LowerChar(n[k])]} :
            n \in names }

\* C9, as claimed: names that differ only in the case of their letters give
\* the same result as ini field, raw variable, looked up path, macro
\* reference, computed name, and as the name SRCSRVERRVAR gives.
C9_CaseInsensitiveKeys ==
    /\ (\A i \in Lookups : ~Started(i)) =>
       \A n1, n2 \in CaseVariants({VERSION, <<"V", "E", "R", "C", "T", "R", "L">>,
                                    SRCSRVTRG, <<"A">>, <<"B">>,
                                    <<"D", "\\", "F">>, <<"E">>}) :
        ToAsciiLowercase(n1) = ToAsciiLowercase(n2) =>
            /\ GetIniField(ini_fields, n1) = GetIniField(ini_fields, n2)
            /\ GetRawVar(var_fields, n1) = GetRawVar(var_fields, n2)
            /\ AddVarsForFile(source_file_entries, n1, <<>>)
                    = AddVarsForFile(source_file_entries, n2, <<>>)
            /\ GetVarName(n1) = GetVarName(n2)
    /\ \A i \in Lookups :
        LET errvar == GetRawVar(var_fields, SRCSRVERRVAR)
            seeded == AddVarsForFile(source_file_entries,
                                     args[i].original_file_path, <<>>)
        IN  (Started(i) /\ seeded.found /\ errvar # None) =>
                error_persistence[i]
                    = Get(seeded.map, ToAsciiLowercase(errvar[1]))

\* The lines of the stream that start with `SRCSRV:`.
MarkerLines == {k \in 1..Len(stream) : StartsWith(stream[k], MarkerPrefix)}
\* The parser read the ini and the variables section and entered the source
\* files section, and no line starts with `SRCSRV: end --`.
ReturnedWithoutEndLine ==
    /\ parse_result # Pending
    /\ section = "source files"
    /\ \A k \in 1..Len(stream) : ~StartsWith(stream[k], EndPrefix)

\* C4, as claimed: without an end line the parse fails with
\* MissingTerminationLine, whether the input ends or another `SRCSRV:` line
\* follows.
C4_MissingEndIsTerminationError ==
    ReturnedWithoutEndLine
        => parse_result = ParseError("MissingTerminationLine")

\* C4, amended: without an end line the parse fails with
\* MissingTerminationLine when another `SRCSRV:` line follows the source
\* file records, and with UnexpectedEof when the input ends after them.
C4_MissingEndLine ==
    ReturnedWithoutEndLine
        => parse_result =
            IF Cardinality(MarkerLines) > 3
            THEN ParseError("MissingTerminationLine")
            ELSE ParseError("UnexpectedEof")

\* C4 witness: MissingTerminationLine after a source file record was read.
C4_Witness ==
    /\ ReturnedWithoutEndLine
    /\ parse_result = ParseError("MissingTerminationLine")
    /\ DOMAIN source_file_entries # {}

\* C10, as claimed: the macro parser returns an AST or a ParseError for
\* every string; an unclosed `%` gives MissingPercent, a reserved name
\* without `(` MissingOpeningParen, an unclosed argument
\* MissingClosingParen, also when the input ends after the `(`.
C10_ParserTotal ==
    macro_result.kind # "none" =>
        /\ macro_result.kind \in {"ok", "err"}
        /\ macro_input = <<"%", "a">>
            => macro_result = ParseErr(MissingPercent)
        /\ macro_input = <<"%", "f", "n", "v", "a", "r", "%", "a">>
            => macro_result = ParseErr(MissingOpeningParen("fnvar"))
        /\ macro_input = <<"%", "f", "n", "v", "a", "r", "%", "(", "a">>
            => macro_result = ParseErr(MissingClosingParen("fnvar"))
        /\ macro_input = <<"%", "f", "n", "v", "a", "r", "%", "(">>
            => macro_result = ParseErr(MissingClosingParen("fnvar"))

\* The `SRCSRV:` lines the parser has read.
MarkersRead ==
    {k \in 1..(Len(stream) - Len(lines)) : StartsWith(stream[k], MarkerPrefix)}
\* The ini section was read up to the `SRCSRV:` line that ends it.
IniSectionEnded ==
    /\ StartsWith(stream[1], IniPrefix)
    /\ Cardinality(MarkersRead) >= 2
\* The variables section was read up to the `SRCSRV:` line that ends it.
VariablesSectionEnded ==
    /\ IniSectionEnded
    /\ StartsWith(stream[Len(stream) - Len(lines)], MarkerPrefix)
    /\ \E k \in MarkersRead :
        /\ StartsWith(stream[k], VariablesPrefix)
        /\ k < Len(stream) - Len(lines)
        /\ Cardinality(MarkersRead) >= 3

\* C13: a successful parse has version 1, 2 or 3, the value of the ini field
\* VERSION, and a variable SRCSRVTRG; once the ini section has ended, a
\* VERSION that is none of "1", "2", "3" gives UnrecognizedVersion with that
\* value and no VERSION gives MissingVersion; once the variables section has
\* ended without SRCSRVTRG the parse gives MissingSrcSrvTrgField.
C13_VersionAndTarget ==
    LET v == GetIniField(ini_fields, VERSION)
    IN  /\ parse_result = ParsedOk =>
            /\ version \in {1, 2, 3}
            /\ v = Some(Decimal(version))
            /\ GetRawVar(var_fields, SRCSRVTRG) # None
        /\ (stream # <<>> /\ IniSectionEnded) =>
            /\ v = None => parse_result = ParseError("MissingVersion")
            /\ (v # None /\ v[1] \notin {<<"1">>, <<"2">>, <<"3">>})
                    => parse_result = UnrecognizedVersion(v[1])
        /\ (stream # <<>> /\ VariablesSectionEnded
                /\ GetRawVar(var_fields, SRCSRVTRG) = None)
                    => parse_result = ParseError("MissingSrcSrvTrgField")

\* C13 witness: a stream with two VERSION lines parsed, the last one giving
\* the version.
C13_Witness ==
    /\ parse_result = ParsedOk
    /\ version = 3
    /\ Len(stream) - Len(lines) >= 7

\* C13, the failures reached: a variables section that ended without
\* SRCSRVTRG.
C13_MissingTargetReached ==
    /\ stream # <<>>
    /\ VariablesSectionEnded
    /\ parse_result = ParseError("MissingSrcSrvTrgField")

\* The line of the source files section that gave the record of a path.
RecordLine(file_lines, path) ==
    CHOOSE line \in Range(file_lines) :
        ToAsciiLowercase(Split(line, "*")[1]) = ToAsciiLowercase(path)

\* The fields of a record line between its `*`.
StarFields(line) ==
    LET stars == {k \in 1..Len(line) : line[k] = "*"}
        ends == stars \cup {Len(line) + 1}
    IN  { SubSeq(line,
                 IF \E j \in stars : j < e
                 THEN (CHOOSE j \in stars :
                        j < e /\ \A h \in stars : h < e => h <= j) + 1
                 ELSE 1,
                 e - 1) : e \in ends }

\* C11, as claimed: the bindings var1..var10 of a lookup are fields of the
\* record line between its `*`, at most ten of them, so that the text of
\* the fields after the tenth is in none of them; and a reference to a
\* positional variable after the last field of the record, which the
\* variables section does not define either, gives UnknownVariable.
C11_ExcessFieldsDropped ==
    \A i \in Lookups :
        (Started(i) /\ ToAsciiLowercase(args[i].original_file_path)
                            \in DOMAIN source_file_entries) =>
            LET line == RecordLine(SeededFileLines, args[i].original_file_path)
                n == Cardinality({k \in 1..Len(line) : line[k] = "*"}) + 1
                trg == var_fields[ToAsciiLowercase(SRCSRVTRG)].raw
            IN  /\ \A k \in 1..11 :
                    VarName(k) \in DOMAIN SeededMap(args[i].original_file_path, <<>>)
                        <=> k <= n /\ k <= MaxFileVars
                /\ \A k \in 1..MaxFileVars :
                    VarName(k) \in DOMAIN var_map[i]
                        /\ VarName(k) \notin DOMAIN var_fields
                        => var_map[i][VarName(k)] \in StarFields(line)
                /\ \A k \in {10, 11} :
                    (/\ Returned(i)
                     /\ trg = Ref(VarName(k))
                     /\ k > n
                     /\ VarName(k) \notin DOMAIN var_fields)
                        => result[i] = Err(UnknownVariable(VarName(k)))

\* C11, the part that holds: a reference to a positional variable after the
\* last field of the record gives UnknownVariable.
C11_AbsentFieldUnknown ==
    \A i \in Lookups :
        (/\ Returned(i)
         /\ var_fields[ToAsciiLowercase(SRCSRVTRG)].raw = Ref(VarName(10))
         /\ ToAsciiLowercase(args[i].original_file_path) = <<"n">>)
            => result[i] = Err(UnknownVariable(VarName(10)))

\* The names a lookup is seeded with: targ and var1..varN of the record.
SeededNames(i) == DOMAIN SeededMap(args[i].original_file_path, <<>>)

\* C17: in every lookup of a present file targ is bound to the base path of
\* the call and var1..varN to the fields of the record, var1 to the path as
\* the stream writes it, from the first evaluation to the return, also when
\* the variables section defines these names; the AST of such an entry is
\* never evaluated, and a target made of references to them is made of the
\* seeded values.
C17_SeededShadowsTable ==
    \A i \in Lookups :
        (Started(i) /\ ToAsciiLowercase(args[i].original_file_path)
                            \in DOMAIN source_file_entries) =>
            LET path == args[i].original_file_path
                file_vars == source_file_entries[ToAsciiLowercase(path)]
                line == RecordLine(SeededFileLines, path)
            IN  /\ var_map[i][TARG] = args[i].extraction_base_path
                /\ \A k \in 1..Len(file_vars) :
                        var_map[i][VarName(k)] = file_vars[k]
                /\ HasPrefix(line, var_map[i][VarName(1)])
                /\ ToAsciiLowercase(var_map[i][VarName(1)])
                        = ToAsciiLowercase(path)
                /\ \A name \in SeededNames(i) \cap DOMAIN var_fields :
                        ast_evals[i][name] = 0
                /\ (/\ Returned(i)
                     /\ Len(file_vars) >= 2
                     /\ var_fields[ToAsciiLowercase(SRCSRVTRG)].raw
                            = Ref(<<"V", "A", "R", "2">>) \o <<"|">>
                                \o Ref(TARG) \o <<"|">>
                                \o Ref(<<"V", "a", "r", "1">>))
                    => /\ result[i].type = "OkSome"
                       /\ result[i].map[ToAsciiLowercase(SRCSRVTRG)]
                            = file_vars[2] \o <<"|">>
                                \o args[i].extraction_base_path \o <<"|">>
                                \o file_vars[1]

\* C17 witness: a lookup returned a target made of var2, targ and var1 on a
\* stream whose variables section defines targ, var1 and var2.
C17_Witness ==
    \E i \in Lookups :
        /\ Returned(i)
        /\ {TARG, VarName(1), VarName(2)} \subseteq DOMAIN var_fields
        /\ result[i].type = "OkSome"
        /\ result[i].method.type = "Other"
        /\ result[i].map[ToAsciiLowercase(SRCSRVTRG)]
                = <<"A", "|", "T", "|", "D", "\\", "F">>

\* The raw value of SRCSRVTRG.
RawTrg == var_fields[ToAsciiLowercase(SRCSRVTRG)].raw

\* C15: when the resolution of a SRCSRVTRG that is a sequence ends, its
\* value is the text of its children's values from left to right with
\* nothing between them, and the bindings are those made up to there; when
\* a child fails the error is that of the first failing child, the
\* children to its right are not resolved (no name is requested and
\* nothing is memoized once an error is there): of `%u%%a%` without u the
\* name a is never requested, of `%a%%u%%w%` a is memoized and w never
\* requested.
C15_SequenceLeftToRight ==
    [][\A i \in Lookups :
        /\ (/\ pc[i] = "trg"
             /\ pc'[i] # "trg"
             /\ var_fields[ToAsciiLowercase(SRCSRVTRG)].node.type = "Sequence")
            => LET r == AloneImpl(ToAsciiLowercase(SRCSRVTRG),
                                  SeededMap(args[i].original_file_path,
                                            args[i].extraction_base_path),
                                  <<>>)
               IN  /\ var_map'[i] = r.map
                   /\ r.ok => fields'[i].trg = Some(r.val)
                   /\ ~r.ok => result'[i] = Err(r.err)
        /\ ctl[i].op = "err"
            => /\ requested'[i] = requested[i]
               /\ ast_evals'[i] = ast_evals[i]
               /\ var_map'[i] = var_map[i]
               /\ result'[i] = Err(ctl[i].err)
        /\ (Returned(i)' /\ RawTrg = Ref(<<"u">>) \o Ref(<<"a">>)
                /\ result'[i] # OkNone)
            => /\ result'[i] = Err(UnknownVariable(<<"u">>))
               /\ <<"a">> \notin DOMAIN requested'[i]
        /\ (Returned(i)' /\ result'[i] # OkNone
                /\ RawTrg = Ref(<<"a">>) \o Ref(<<"u">>) \o Ref(<<"w">>)
                /\ <<"a">> \in DOMAIN var_map'[i])
            => /\ result'[i] = Err(UnknownVariable(<<"u">>))
               /\ <<"w">> \notin DOMAIN requested'[i]
    ]_vars

\* C15 witness: of `%a%%u%%w%` the first child was resolved and memoized and
\* the lookup returned the error of the second.
C15_Witness ==
    \E i \in Lookups :
        /\ Returned(i)
        /\ RawTrg = Ref(<<"a">>) \o Ref(<<"u">>) \o Ref(<<"w">>)
        /\ <<"a">> \in DOMAIN var_map[i]
        /\ var_map[i][<<"a">>] = <<"x", "/", "y">>
        /\ result[i] = Err(UnknownVariable(<<"u">>))

\* The lookup i found the record of its path.
Found(i) ==
    /\ Started(i)
    /\ ToAsciiLowercase(args[i].original_file_path)
            \in DOMAIN source_file_entries
\* The variables section defines the name.
Defined(name) == ToAsciiLowercase(name) \in DOMAIN var_fields
\* The top-level field is resolved, or is not defined.
Settled(i, position) ==
    IF Defined(FieldName(position)) THEN fields[i][position] # None
    ELSE fields[i][position] = None

\* C16: a lookup of a present file resolves SRCSRVTRG, SRCSRVCMD, SRCSRVENV
\* and SRCSRVVERCTRL in this order, each only if defined; it returns a
\* method only once all four are settled, and else the error of the first
\* field, in this order, whose resolution fails, also when SRCSRVCMD is not
\* defined and the target is an http URL.
C16_FieldsInOrder ==
    \A i \in Lookups :
        Found(i) =>
            /\ \A position \in {"cmd", "env", "verctrl"} :
                    ~Defined(FieldName(position))
                        => fields[i][position] = None
            /\ pc[i] = "trg" =>
                    fields[i] = NoFields
            /\ pc[i] = "cmd" =>
                    /\ Settled(i, "trg")
                    /\ fields[i].cmd = None /\ fields[i].env = None
                    /\ fields[i].verctrl = None
            /\ pc[i] = "env" =>
                    /\ Settled(i, "trg") /\ Settled(i, "cmd")
                    /\ fields[i].env = None /\ fields[i].verctrl = None
            /\ pc[i] = "verctrl" =>
                    /\ Settled(i, "trg") /\ Settled(i, "cmd")
                    /\ Settled(i, "env")
                    /\ fields[i].verctrl = None
            /\ Returned(i) =>
                    /\ result[i] = Alone(i).result
                    /\ result[i].type = "OkSome" =>
                            \A position \in {"trg", "cmd", "env", "verctrl"} :
                                Settled(i, position)
                    /\ (/\ ~Defined(SRCSRVCMD)
                         /\ RawTrg = HTTP \o Ref(<<"V", "a", "r", "2">>)
                         /\ Defined(SRCSRVENV)
                         /\ GetRawVar(var_fields, SRCSRVENV)[1]
                                = <<"K", "=", "1", BS, "K", "=">> \o Ref(<<"b">>)
                         /\ ~Defined(<<"b">>)
                         /\ Len(source_file_entries[ToAsciiLowercase(
                                    args[i].original_file_path)]) >= 2)
                        => result[i] = Err(UnknownVariable(<<"b">>))

\* C16 witness: with SRCSRVCMD not defined and an http target, SRCSRVENV
\* and SRCSRVVERCTRL both fail, and the lookup returned the error of
\* SRCSRVENV.
C16_Witness ==
    \E i \in Lookups :
        /\ Returned(i)
        /\ ~Defined(SRCSRVCMD)
        /\ ~Defined(<<"a">>) /\ ~Defined(<<"b">>)
        /\ Defined(SRCSRVENV) /\ Defined(SRCSRVVERCTRL)
        /\ fields[i].trg # None
        /\ HasPrefix(fields[i].trg[1], HTTP)
        /\ result[i] = Err(UnknownVariable(<<"b">>))

\* The names of the calls of eval_impl that evaluate a node, outermost
\* first.
RECURSIVE ImplNames(_)
ImplNames(fs) ==
    IF fs = <<>> THEN <<>>
    ELSE IF Head(fs).kind = "eval_impl"
    THEN <<Head(fs).var_name>> \o ImplNames(Tail(fs))
    ELSE ImplNames(Tail(fs))

\* The stack holds no name twice.
NoDuplicate(stack) ==
    \A j, k \in 1..Len(stack) : stack[j] = stack[k] => j = k

\* The resolution stack while a resolution runs: no name twice, and the
\* names of the evaluations in flight (with the name that was pushed last,
\* when it is unknown); empty when the resolution starts and when it
\* returns a value.
StackWhileRunning(i) ==
    /\ NoDuplicate(eval_stack[i])
    /\ ctl[i].op \in {"call", "eval", "ret"}
            => eval_stack[i] = ImplNames(frames[i])
    /\ (ctl[i].op = "err" /\ ctl[i].err.type = "Recursion")
            => eval_stack[i] = ImplNames(frames[i])
    /\ (ctl[i].op = "err" /\ ctl[i].err.type = "UnknownVariable")
            => eval_stack[i] = Append(ImplNames(frames[i]), ctl[i].err.name)
    /\ (ctl[i].op \in {"call", "ret"} /\ frames[i] = <<>>)
            => eval_stack[i] = <<>>
    /\ (ctl[i].op = "none" /\ result[i].type # "Err") => eval_stack[i] = <<>>

\* C14, the part that holds: the stack while a resolution runs and when it
\* returns a value.
C14_StackWhileRunning ==
    \A i \in Lookups : StackWhileRunning(i)

\* C14, as claimed: during a resolution the stack holds no name twice
\* and the names in flight; it is empty when the resolution starts and when
\* it returns, with a value or with an error.
C14_StackEmptyAtReturn ==
    \A i \in Lookups :
        /\ StackWhileRunning(i)
        /\ ctl[i].op = "err" => eval_stack[i] = <<>>
        /\ result[i].type = "Err" => eval_stack[i] = <<>>

\* The locals of the lookup i.
Locals(i) ==
    <<pc[i], args[i], var_map[i], eval_stack[i], frames[i], ctl[i],
      fields[i], error_persistence[i], result[i]>>

\* The bindings and the stack of the lookup i are its own: every binding is
\* one of the lookup on its own, and the stack holds the names of its
\* evaluations in flight.
OwnBindings(i) ==
    /\ Found(i) =>
            \A name \in DOMAIN var_map[i] :
                /\ name \in DOMAIN Alone(i).map
                /\ var_map[i][name] = Alone(i).map[name]
    /\ StackWhileRunning(i)

\* C12: whatever the order of the steps of two lookups on one stream, each
\* lookup returns the result it gives on its own, no step changes the
\* version or the tables of the stream, a step of one lookup leaves the
\* locals of the other as they are, and the bindings and the stack of a
\* lookup hold nothing of the other.
C12_LookupsDoNotInterfere ==
    /\ [](\A i \in Lookups :
            /\ OwnBindings(i)
            /\ Returned(i) =>
                    /\ result[i] = Alone(i).result
                    /\ var_map[i] = Alone(i).map)
    /\ [][/\ streamVars' = streamVars
          /\ \A i \in Lookups : steps'[i] = steps[i] => Locals(i)' = Locals(i)
       ]_vars

\* C12 witness: two lookups of different paths and base paths are both in
\* the middle of a resolution, each with names on its stack and a binding it
\* has memoized.
C12_Witness ==
    /\ \A i \in Lookups :
        /\ Found(i) /\ ~Returned(i)
        /\ Len(eval_stack[i]) >= 2
        /\ \E name \in DOMAIN var_map[i] : name \in DOMAIN var_fields
    /\ args[1].original_file_path # args[2].original_file_path
    /\ args[1].extraction_base_path # args[2].extraction_base_path

\* C12, the end reached: both lookups returned, with different results.
C12_BothReturned ==
    /\ \A i \in Lookups : Returned(i) /\ result[i].type = "OkSome"
    /\ result[1] # result[2]

====
